---- MODULE Spec2Model ----
(***************************************************************************)
(* Model of src/add_league_tier_resume.py: the multi-key rate-limited      *)
(* dispatcher (RateLimitTracker, StratzAPIClient) and the checkpoint /     *)
(* resume job (load_checkpoint, save_checkpoint, process_matches, main);   *)
(* and of the worker pool of src/scripts/fetch_match_leagues.py.           *)
(*                                                                         *)
(* Nine specifications share the variables:                                *)
(*   Spec        the client: fetch_single_match_league_data called for a   *)
(*               stream of items, one request attempt per step, with the   *)
(*               clock and the four sliding windows of every key;          *)
(*   SpecJob     the job: main and process_matches statement by statement, *)
(*               the checkpoint and output files, KeyboardInterrupt,       *)
(*               crashes and restarts of the process;                      *)
(*   SpecTracker a RateLimitTracker alone: record_call, the cleaning that  *)
(*               can_make_call and time_until_available do, and the        *)
(*               passing of time, in any order;                            *)
(*   SpecFetch   one call of fetch_single_match_league_data run to its     *)
(*               return, against every sequence of request outcomes;       *)
(*   SpecSingle  the same for the fetch function of                        *)
(*               src/add_league_tier_single.py, whose 429 and 401          *)
(*               branches call the function again;                         *)
(*   SpecWait    the client with the clock left free and the loop of       *)
(*               wait_for_available_key weakly fair;                       *)
(*   SpecPool    fetch_match_leagues.py: main, the worker threads, the     *)
(*               task and key queues, the lock and the output file, over   *)
(*               reruns of the script;                                     *)
(*   SpecMerge   the loop body of process_matches of src/add_league_tier.py *)
(*               applied to one batch and one response;                    *)
(*   SpecChunks  chunked of fetch_match_leagues.py applied to a sequence.  *)
(*                                                                         *)
(* Time is counted in whole seconds.  The window durations and limits of   *)
(* RATE_LIMITS (15/s, 200/min, 1600/h, 8000/day) and CHECKPOINT_INTERVAL   *)
(* (1000) are scaled down to the bounds below; their order is kept, and    *)
(* each limit leaves room for more than one call below the next.           *)
(***************************************************************************)
EXTENDS Integers, Sequences, FiniteSets, TLC

\* ---------------------------------------------------------------- bounds
NumKeys == 2          \* len(API_KEYS), 5 in the source
MaxTime == 5          \* the clock stops the run at this second
MaxCalls == 5         \* request attempts made by one client
LimitSecond == 1      \* RATE_LIMITS['second'], 15 in the source
LimitMinute == 3      \* RATE_LIMITS['minute'], 200 in the source
LimitHour == 5        \* RATE_LIMITS['hour'], 1600 in the source
LimitDay == 6         \* RATE_LIMITS['day'], 8000 in the source
WindowMinute == 4     \* 60 s in the source
WindowHour == 5       \* 3600 s in the source
WindowDay == 7        \* 86400 s in the source
NumMatches == 3       \* ids in the manifest, 96507 in the source
CHECKPOINT_INTERVAL == 2   \* 1000 in the source
MaxRuns == 2          \* times the script is started for one job
MaxSent == 6          \* requests followed for one item of add_league_tier_single.py
NumWorkers == 2        \* --threads, 5 by default
BatchSize == 2         \* --batch-size, 40 by default
MAX_RETRIES == 1       \* MAX_RETRIES of fetch_match_leagues.py, 5 in the source
PER_KEY_DELAY == 1     \* PER_KEY_DELAY in ticks, 0.35 s in the source
MaxPoolTime == 3       \* ticks followed in one run of the pool
MaxLen == 5            \* longest sequence chunked is applied to
MaxSize == 3           \* largest size chunked is applied with
MaxRecords == 6       \* record_call() calls made on the trackers driven alone

\* ------------------------------------------------------ program constants
WindowSecond == 1     \* now - t < 1
max_retries == 5
RateLimitSleep == 2   \* time.sleep(2) after a 429
BackoffCap == 30      \* min(2 ** attempt, 30)
max_retries_single == 3    \* max_retries of add_league_tier_single.py

\* A request is answered within the second it is sent in, or in the next.
Latencies == {0, 1}

Keys == 0 .. (NumKeys - 1)
None == -1

\* The outcomes of one scraper.post(): an exception (timeout, connection
\* error), or a response classified by status code and body.
Responses == {"exc", "s429", "s401", "s5xx", "errors", "nodata", "data"}

\* The dict fetch_single_match_league_data returns: {} or the three fields.
EmptyDict == [leagueId |-> "absent", leagueName |-> "absent", leagueTier |-> "absent"]
Payloads ==
  { [leagueId |-> "id", leagueName |-> "name", leagueTier |-> "tier"] }

VARIABLES
  now,                \* time.time(), in seconds
  trackers,           \* StratzAPIClient.trackers: key index -> RateLimitTracker
  current_key_index,  \* StratzAPIClient.current_key_index
  total_calls, failed_calls, network_errors,
  dpc,                \* position in fetch_single_match_league_data
  key_idx,            \* its local key_idx
  header_key,         \* the key whose token is in its headers
  attempt,            \* its loop variable
  result,             \* the value it returned last
  calls_recorded,     \* history: record_call() invocations of the current call
  unauthorized,       \* history: keys that were answered 401
  sent,               \* history: the requests of the current call, each with
                      \* the key it was sent with, the way it ended, the
                      \* tracker that was charged and the sleep that followed
  slept,              \* history: the sleeps wait_for_available_key has made
  record_calls        \* history: record_call() invocations since __init__
                      \* in the current call

dvars == <<now, trackers, current_key_index, total_calls, failed_calls,
           network_errors, dpc, key_idx, header_key, attempt, result,
           calls_recorded, unauthorized, sent, slept, record_calls>>

\* The client state the job never reads: process_matches sees the client
\* through the value fetch_single_match_league_data returns and through the
\* three counters it saves.
dfixed == <<now, trackers, current_key_index, dpc, key_idx, header_key,
            attempt, result, calls_recorded, unauthorized, sent, slept,
            record_calls>>

VARIABLES
  jpc,                \* position of the process in main / process_matches
  matches,            \* the dict matches: pairs (id, entry) in key order
  processed_ids,      \* the set processed_ids
  match_ids,          \* the list match_ids
  pos,                \* items of match_ids the loop has finished
  processed,          \* the counter processed
  league_data,        \* the dict the current fetch returned
  last_fetch,         \* history: the id of that fetch and its request outcomes
  save_return,        \* caller of save_checkpoint: "loop" or "handler"
  checkpoint_file,    \* CHECKPOINT_FILE on disk
  output_file,        \* the final output file on disk
  runs,               \* times the script was started
  dispatched,         \* history: ids this run has called the fetch for
  resumed,            \* history: this run loaded a checkpoint in process_matches
  resumed_from,       \* history: the processed_ids this run started from
  last_save,          \* history: arguments of the last save_checkpoint that finished
  prev_found,         \* history: a checkpoint could be loaded when the last save began
  interrupted,        \* history: a KeyboardInterrupt was raised in this run
  final_saves,        \* history: checkpoint saves finished after it
  inflight,           \* history: the id in flight when it was raised
  cancelled_p,        \* history: ids the job had processed when a run was cancelled
  crashed_at          \* history: position at which the process was killed

jvars == <<jpc, matches, processed_ids, match_ids, pos, processed, league_data,
           last_fetch,
           save_return, checkpoint_file, output_file, runs, dispatched,
           resumed, resumed_from, last_save, prev_found, interrupted,
           final_saves, inflight, cancelled_p, crashed_at>>

\* The worker-pool fetcher of src/scripts/fetch_match_leagues.py.
VARIABLES
  mpc,                \* position of its main
  output_map,         \* OUTPUT_FILE: the ids that have an entry in it
  result_dict,        \* the dict shared by the workers: the ids with an entry
  task_q,             \* task_queue: the batches not yet taken
  unfinished,         \* its count of tasks without task_done()
  key_q,              \* key_queue: the keys no worker holds
  lock,               \* the Lock: 0 when free, else the worker holding it
  wpc,                \* position of every worker in Worker.run
  wbatch,             \* its batch
  wkey,               \* its api_key
  wretry,             \* its retry_count
  wwake,              \* the end of its time.sleep(PER_KEY_DELAY)
  clock,              \* time of the pool, in ticks
  leagueless,         \* the ids whose match the service answers without league
  pruns,              \* times the script was started
  posts,              \* history: per key, the times of its requests
  queued,             \* history: the batches main has put on task_queue
  started_from,       \* history: the mapping main found in OUTPUT_FILE
  failures,           \* history: requests of this run that raised
  prev_clean,         \* history: the run before this one wrote its output
                      \* and none of its requests raised
  wanswer,            \* history: how the request a worker holds its key for
                      \* has ended
  takes,              \* history: per batch, the task_queue.get() that gave it
  tries,              \* history: per batch, the requests made for it
  dones,              \* history: per batch, the task_done() made for it
  writes              \* history: times this run wrote OUTPUT_FILE

pvars == <<mpc, output_map, result_dict, task_q, unfinished, key_q, lock, wpc,
           wbatch, wkey, wretry, wwake, clock, leagueless, pruns, posts,
           queued, started_from, failures, prev_clean, wanswer, takes, tries,
           dones, writes>>

\* Two functions on their own: the merge of one batch in process_matches of
\* src/add_league_tier.py, and chunked of src/scripts/fetch_match_leagues.py.
VARIABLES
  hpc,                \* which of the two was applied, "none" before
  bmatches,           \* the dict matches before the batch: id -> entry
  batch_ids,          \* the slice match_ids[i:i+batch_size]
  bleague_data,       \* what fetch_match_league_data returned: id -> fields
  bmerged,            \* the dict matches after the loop over batch_ids
  iterable,           \* the argument of chunked
  size,               \* its size
  chunks              \* the chunks it yielded, in order

hvars == <<hpc, bmatches, batch_ids, bleague_data, bmerged, iterable, size,
           chunks>>

vars == <<dvars, jvars, pvars, hvars>>

\* ------------------------------------------------------- RateLimitTracker
NewTracker == [calls_second |-> <<>>, calls_minute |-> <<>>,
               calls_hour |-> <<>>, calls_day |-> <<>>]

\* A record_call that leaves the one-second list alone.
record_call_SkipsSecond(tr, t) ==
  [calls_second |-> tr.calls_second,
   calls_minute |-> Append(tr.calls_minute, t),
   calls_hour |-> Append(tr.calls_hour, t),
   calls_day |-> Append(tr.calls_day, t)]

record_call(tr, t) ==
  [calls_second |-> Append(tr.calls_second, t),
   calls_minute |-> Append(tr.calls_minute, t),
   calls_hour |-> Append(tr.calls_hour, t),
   calls_day |-> Append(tr.calls_day, t)]

\* A cleaning that keeps the timestamps aged exactly one window.
Recent_KeepsBoundary(calls, window, t) ==
  SelectSeq(calls, LAMBDA c : t - c <= window)

Recent(calls, window, t) == SelectSeq(calls, LAMBDA c : t - c < window)

clean_old_calls(tr, t) ==
  [calls_second |-> Recent(tr.calls_second, WindowSecond, t),
   calls_minute |-> Recent(tr.calls_minute, WindowMinute, t),
   calls_hour |-> Recent(tr.calls_hour, WindowHour, t),
   calls_day |-> Recent(tr.calls_day, WindowDay, t)]

\* can_make_call and time_until_available both clean first; the cleaned
\* tracker is stored by the actions that call them.
can_make_call(tr, t) ==
  LET c == clean_old_calls(tr, t) IN
    /\ Len(c.calls_second) < LimitSecond
    /\ Len(c.calls_minute) < LimitMinute
    /\ Len(c.calls_hour) < LimitHour
    /\ Len(c.calls_day) < LimitDay

\* A max that answers the smallest element.
SetMax_Smallest(S) == CHOOSE x \in S : \A y \in S : x <= y

SetMax(S) == CHOOSE x \in S : \A y \in S : y <= x
SetMin(S) == CHOOSE x \in S : \A y \in S : x <= y

time_until_available(tr, t) ==
  LET c == clean_old_calls(tr, t)
      wait_times ==
        (IF Len(c.calls_second) >= LimitSecond
           THEN {WindowSecond - (t - c.calls_second[1])} ELSE {})
        \cup (IF Len(c.calls_minute) >= LimitMinute
           THEN {WindowMinute - (t - c.calls_minute[1])} ELSE {})
        \cup (IF Len(c.calls_hour) >= LimitHour
           THEN {WindowHour - (t - c.calls_hour[1])} ELSE {})
        \cup (IF Len(c.calls_day) >= LimitDay
           THEN {WindowDay - (t - c.calls_day[1])} ELSE {})
  IN IF wait_times # {} THEN SetMax(wait_times) ELSE 0

\* -------------------------------------------------------- StratzAPIClient
\* A scan that starts at index 0 and gives the current key no preference.
get_available_key_index_NoPreference ==
  LET free == {i \in Keys : can_make_call(trackers[i], now)}
  IN IF free # {} THEN SetMin(free) ELSE None

get_available_key_index ==
  IF can_make_call(trackers[current_key_index], now)
    THEN current_key_index
    ELSE LET free == {i \in Keys : can_make_call(trackers[i], now)}
         IN IF free # {} THEN SetMin(free) ELSE None

\* The trackers get_available_key_index cleaned on its way to answer idx.
Scanned(idx) ==
  IF idx = None THEN Keys
  ELSE IF can_make_call(trackers[current_key_index], now) THEN {current_key_index}
  ELSE {current_key_index} \cup (0 .. idx)

CleanedTrackers(S) ==
  [i \in Keys |-> IF i \in S THEN clean_old_calls(trackers[i], now) ELSE trackers[i]]

Pow2(n) == IF n = 0 THEN 1 ELSE IF n = 1 THEN 2 ELSE IF n = 2 THEN 4
           ELSE IF n = 3 THEN 8 ELSE 16
Min2(a, b) == IF a < b THEN a ELSE b


\* An errors branch that goes round the loop again instead of returning.
OnErrors_Retry ==
  [record |-> TRUE, failed |-> 1, neterr |-> 0, rotate |-> FALSE,
   sleep |-> 0, return |-> FALSE, value |-> EmptyDict]

\* if "errors" in data: failed_calls += 1; return {}
OnErrors ==
  [record |-> TRUE, failed |-> 1, neterr |-> 0, rotate |-> FALSE,
   sleep |-> 0, return |-> TRUE, value |-> EmptyDict]

\* A loop that never sees its last pass.
IsLastAttempt_Never(a) == FALSE

\* The pass with attempt = a is the last of range(max_retries): a backoff
\* branch returns instead of sleeping, a continue falls out of the loop.
IsLastAttempt(a) == ~(a < max_retries - 1)

\* The rotation of current_key_index after a 429 or a 401.
NextKey_NoWrap(cki) == cki + 1

NextKey(cki) == (cki + 1) % NumKeys

\* get_current_key(): the key at current_key_index, named by its index.
get_current_key_Next(cki) == (cki + 1) % NumKeys

get_current_key(cki) == cki

\* What one pass of the retry loop does with the outcome r of the request,
\* answered at time t: the fields say whether the call is recorded, which
\* counters grow, whether current_key_index rotates, how long it sleeps and
\* whether the function returns (and what).
Outcome(r, a, payload) ==
  LET last == IsLastAttempt(a) IN
  CASE r = "exc" ->
         [record |-> FALSE, failed |-> 0, neterr |-> 1, rotate |-> FALSE,
          sleep |-> IF last THEN 0 ELSE Min2(Pow2(a), BackoffCap),
          return |-> last, value |-> EmptyDict]
    [] r = "s429" ->
         [record |-> TRUE, failed |-> 1, neterr |-> 0, rotate |-> TRUE,
          sleep |-> RateLimitSleep,
          return |-> last, value |-> EmptyDict]
    [] r = "s401" ->
         [record |-> TRUE, failed |-> 1, neterr |-> 0, rotate |-> TRUE,
          sleep |-> 0, return |-> TRUE, value |-> EmptyDict]
    [] r = "s5xx" ->
         [record |-> TRUE, failed |-> 1, neterr |-> 0, rotate |-> FALSE,
          sleep |-> IF last THEN 0 ELSE Pow2(a),
          return |-> last, value |-> EmptyDict]
    [] r = "errors" -> OnErrors
    [] r = "nodata" ->
         [record |-> TRUE, failed |-> 0, neterr |-> 0, rotate |-> FALSE,
          sleep |-> 0, return |-> TRUE, value |-> EmptyDict]
    [] OTHER ->
         [record |-> TRUE, failed |-> 0, neterr |-> 0, rotate |-> FALSE,
          sleep |-> 0, return |-> TRUE, value |-> payload]

\* The loop body of fetch_single_match_league_data in
\* add_league_tier_single.py: on 429 and on 401 the function rotates and
\* calls itself for the same item; any other status than 200 ends the call;
\* an exception counts as a failed call.
OutcomeSingle(r, a, payload) ==
  LET last == ~(a < max_retries_single - 1) IN
  CASE r = "exc" ->
         [record |-> FALSE, failed |-> 1, neterr |-> 0, rotate |-> FALSE,
          sleep |-> IF last THEN 0 ELSE Pow2(a),
          return |-> last, recurse |-> FALSE, value |-> EmptyDict]
    [] r = "s429" ->
         [record |-> TRUE, failed |-> 1, neterr |-> 0, rotate |-> TRUE,
          sleep |-> RateLimitSleep,
          return |-> FALSE, recurse |-> TRUE, value |-> EmptyDict]
    [] r = "s401" ->
         [record |-> TRUE, failed |-> 1, neterr |-> 0, rotate |-> TRUE,
          sleep |-> 0, return |-> FALSE, recurse |-> TRUE, value |-> EmptyDict]
    [] r \in {"s5xx", "errors"} ->
         [record |-> TRUE, failed |-> 1, neterr |-> 0, rotate |-> FALSE,
          sleep |-> 0, return |-> TRUE, recurse |-> FALSE, value |-> EmptyDict]
    [] r = "nodata" ->
         [record |-> TRUE, failed |-> 0, neterr |-> 0, rotate |-> FALSE,
          sleep |-> 0, return |-> TRUE, recurse |-> FALSE, value |-> EmptyDict]
    [] OTHER ->
         [record |-> TRUE, failed |-> 0, neterr |-> 0, rotate |-> FALSE,
          sleep |-> 0, return |-> TRUE, recurse |-> FALSE, value |-> payload]

\* ------------------------------------------------- checkpoint and files
\* The manifest: the input file maps each id to its record, which has none
\* of the league fields yet.  Ids stand for the id strings, in file order.
INPUT == [i \in 1 .. NumMatches |-> [id |-> i, entry |-> EmptyDict]]

KeysOf(m) == [i \in 1 .. Len(m) |-> m[i].id]
Range(f) == {f[i] : i \in DOMAIN f}

\* list(processed_ids): the elements of the set in an order of the set's own,
\* here the largest first.
RECURSIVE ListOfSet(_)
ListOfSet(S) ==
  IF S = {} THEN <<>> ELSE LET x == SetMax(S) IN <<x>> \o ListOfSet(S \ {x})

Stats == [total_calls |-> total_calls, failed_calls |-> failed_calls,
          network_errors |-> network_errors]

\* The dict save_checkpoint builds (its timestamp is never read again).
CheckpointOf(m, ids, st) ==
  [processed |-> Len(ids), total |-> Len(m), processed_ids |-> ids,
   stats |-> st, matches |-> m]

NoDoc == CheckpointOf(<<>>, <<>>, [total_calls |-> 0, failed_calls |-> 0,
                                    network_errors |-> 0])
NoFile == [state |-> "absent", doc |-> NoDoc]
\* A file opened with 'w' whose json.dump has not finished: empty or cut off.
PartialFile == [state |-> "partial", doc |-> NoDoc]
CompleteFile(d) == [state |-> "complete", doc |-> d]

NoOutput == [state |-> "absent", data |-> <<>>]

NoCheckpoint == [found |-> FALSE, doc |-> NoDoc]

\* load_checkpoint: the parsed file, or None when the file is missing or
\* json.load raises on it.
load_checkpoint(file) ==
  IF file.state = "complete" THEN [found |-> TRUE, doc |-> file.doc]
  ELSE NoCheckpoint

\* dict.update: the keys of data overwrite those of entry.
Update(entry, data) ==
  [f \in DOMAIN entry |-> IF data[f] # "absent" THEN data[f] ELSE entry[f]]

\* An else branch that leaves the tier of the entry as it was.
NullLeague_NoTier ==
  [leagueId |-> "null", leagueName |-> "null", leagueTier |-> "absent"]

\* The dict of the else branch of the loop body: the three fields are None.
NullLeague == [leagueId |-> "null", leagueName |-> "null", leagueTier |-> "null"]

\* A loop body without its else branch: an empty answer merges nothing.
Merged_SkipEmpty(m, id, data) ==
  [i \in 1 .. Len(m) |->
     IF m[i].id = id /\ data # EmptyDict
       THEN [id |-> id, entry |-> Update(m[i].entry, data)]
       ELSE m[i]]

\* matches[match_id].update(...) of the loop body: the data when it is a
\* non-empty dict, else the three fields set to None.
Merged(m, id, data) ==
  [i \in 1 .. Len(m) |->
     IF m[i].id = id
       THEN [id |-> id,
             entry |-> Update(m[i].entry,
                              IF data # EmptyDict THEN data ELSE NullLeague)]
       ELSE m[i]]

\* A resume that forgets the filter: every id is fetched again.
RemainingIds_NoFilter(m, done) == KeysOf(m)

\* match_ids of a resumed run.
RemainingIds(m, done) == SelectSeq(KeysOf(m), LAMBDA id : id \notin done)

\* Request outcomes of one fetch, attempt by attempt.
ResponseScripts ==
  { <<"data">>, <<"nodata">>, <<"errors">>,
    <<"s5xx", "s5xx", "s5xx", "data">>,
    <<"exc", "s5xx", "exc", "s5xx", "exc">> }

\* The retry loop run on the first n outcomes of script s: the counters it
\* adds and, if it returned within them, the value.
RECURSIVE RunAttempts(_, _, _, _)
RunAttempts(s, n, payload, acc) ==
  IF acc.returned \/ acc.attempt >= n \/ acc.attempt >= max_retries THEN acc
  ELSE LET o == Outcome(s[acc.attempt + 1], acc.attempt, payload)
       IN RunAttempts(s, n, payload,
            [attempt |-> acc.attempt + 1,
             calls |-> acc.calls + (IF o.record THEN 1 ELSE 0),
             failed |-> acc.failed + o.failed,
             neterr |-> acc.neterr + o.neterr,
             returned |-> o.return,
             value |-> o.value])

FetchRun(s, n, payload) ==
  RunAttempts(s, n, payload,
    [attempt |-> 0, calls |-> 0, failed |-> 0, neterr |-> 0,
     returned |-> FALSE, value |-> EmptyDict])

NoSave == [matches |-> <<>>, processed_ids |-> {}]

\* No fetch has returned in this process yet.
NoFetch == [id |-> None, script |-> <<>>]

\* --------------------------------------------------------------- initial
InitClient ==
  /\ now = 0
  /\ trackers = [i \in Keys |-> NewTracker]
  /\ current_key_index = 0
  /\ total_calls = 0
  /\ failed_calls = 0
  /\ network_errors = 0
  /\ dpc = "idle"
  /\ key_idx = None
  /\ header_key = None
  /\ attempt = 0
  /\ result = EmptyDict
  /\ calls_recorded = 0
  /\ unauthorized = {}
  /\ sent = <<>>
  /\ slept = <<>>
  /\ record_calls = 0

\* A process that has just entered main.
InitProcess ==
  /\ jpc = "main_load"
  /\ matches = <<>>
  /\ processed_ids = {}
  /\ match_ids = <<>>
  /\ pos = 0
  /\ processed = 0
  /\ league_data = EmptyDict
  /\ last_fetch = NoFetch
  /\ save_return = "loop"
  /\ dispatched = <<>>
  /\ resumed = FALSE
  /\ resumed_from = {}
  /\ interrupted = FALSE
  /\ final_saves = 0
  /\ inflight = None
  /\ crashed_at = "none"

\* ------------------------------------------ the batch merge on its own
\* The ids of the manifest of the batched processor, and what a response may
\* name besides: an id the manifest does not have.
BatchIds == 1 .. NumMatches
ForeignId == NumMatches + 1

\* The fields fetch_match_league_data builds for a match: those of a match
\* with a league, and those of a match without.
LeagueFields ==
  { [leagueId |-> "id", leagueName |-> "name", leagueTier |-> "tier"],
    [leagueId |-> "null", leagueName |-> "null", leagueTier |-> "null"] }

\* A loop body without its else branch.
MergeOne_NoElse(m, id, data) ==
  IF id \in DOMAIN data THEN [m EXCEPT ![id] = Update(@, data[id])] ELSE m

\* The body of the loop over batch_ids: the entry of match_id is updated with
\* the fields of the response, or with three None when it has none.
MergeOne(m, id, data) ==
  IF id \in DOMAIN data
    THEN [m EXCEPT ![id] = Update(@, data[id])]
    ELSE [m EXCEPT ![id] = Update(@, NullLeague)]

\* for match_id in batch_ids: ...
RECURSIVE MergeBatch(_, _, _)
MergeBatch(m, ids, data) ==
  IF ids = <<>> THEN m
  ELSE MergeBatch(MergeOne(m, Head(ids), data), Tail(ids), data)

\* match_ids[i:i+batch_size] of the ids in key order.
BatchSlice(i, n) ==
  SubSeq([k \in 1 .. NumMatches |-> k], i + 1, Min2(i + n, NumMatches))

\* Neither function was applied yet.
InitHarness ==
  /\ hpc = "none"
  /\ bmatches = [id \in BatchIds |-> EmptyDict]
  /\ batch_ids = <<>>
  /\ bleague_data = <<>>
  /\ bmerged = bmatches
  /\ iterable = <<>>
  /\ size = 1
  /\ chunks = <<>>

\* ------------------------------------------------------- the worker pool
Workers == 1 .. NumWorkers

\* match_ids = list(raw.keys()): the ids of the manifest in file order.
PoolIds == KeysOf(INPUT)

\* A generator that ends without its last, shorter chunk.
TrailingChunk_Dropped(chunk) == <<>>

\* if chunk: yield chunk
TrailingChunk(chunk) == IF chunk # <<>> THEN <<chunk>> ELSE <<>>

\* The loop of chunked over the items left, with the chunk built so far:
\* the item is appended and a chunk of n items is yielded and begun anew.
RECURSIVE ChunkLoop(_, _, _)
ChunkLoop(items, n, chunk) ==
  IF items = <<>> THEN TrailingChunk(chunk)
  ELSE LET grown == Append(chunk, Head(items)) IN
         IF Len(grown) = n
           THEN <<grown>> \o ChunkLoop(Tail(items), n, <<>>)
           ELSE ChunkLoop(Tail(items), n, grown)

\* chunked(iterable, size): the chunks it yields, in order.
chunked(ids, n) == ChunkLoop(ids, n, <<>>)

\* if all(str(mid) in existing for mid in batch): continue
Skipped(batch, existing) == Range(batch) \subseteq existing

\* The batches main puts on task_queue, in order.
NewBatches(existing) ==
  SelectSeq(chunked(PoolIds, BatchSize), LAMBDA b : ~Skipped(b, existing))

\* Every batch main can queue, and the place of a batch among them.
AllBatches == chunked(PoolIds, BatchSize)
BatchNo(b) == CHOOSE i \in DOMAIN AllBatches : AllBatches[i] = b

\* A worker that never gives a batch up.
Exhausted_Never(n) == FALSE

\* if retry_count > MAX_RETRIES: the batch is given up.
Exhausted(n) == n > MAX_RETRIES

\* A finally clause that forgets the key.
PutBack_Lost(q, k) == q

\* finally: self.key_queue.put(api_key)
PutBack(q, k) == Append(q, k)

\* A lock that lets everybody in.
LockFree_Always(l) == TRUE

\* threading.Lock: acquire goes through when nobody holds the lock.
LockFree(l) == l = 0

\* A worker that sends at once.
WakeTime_NoSleep(t) == t

\* time.sleep(PER_KEY_DELAY) started at t ends no earlier than this.
WakeTime(t) == t + PER_KEY_DELAY

\* The ids of a batch the loop over matches writes: those whose match has a
\* league.
Written(batch) == Range(batch) \ leagueless

\* A process of the script that has just been started.
InitPoolProcess ==
  /\ mpc = "start"
  /\ result_dict = {}
  /\ task_q = <<>>
  /\ unfinished = 0
  /\ key_q = <<>>
  /\ lock = 0
  /\ wpc = [w \in Workers |-> "unstarted"]
  /\ wbatch = [w \in Workers |-> <<>>]
  /\ wkey = [w \in Workers |-> None]
  /\ wretry = [w \in Workers |-> 0]
  /\ wwake = [w \in Workers |-> 0]
  /\ clock = 0
  /\ posts = [k \in Keys |-> <<>>]
  /\ queued = <<>>
  /\ started_from = {}
  /\ failures = 0
  /\ wanswer = [w \in Workers |-> "none"]
  /\ takes = [i \in DOMAIN AllBatches |-> 0]
  /\ tries = [i \in DOMAIN AllBatches |-> 0]
  /\ dones = [i \in DOMAIN AllBatches |-> 0]
  /\ writes = 0

\* What the service may hold: a league for every match, or for every match
\* but the last.
ServiceData == {{}, {NumMatches}}

\* The first start: no output file yet.
InitPool ==
  /\ InitPoolProcess
  /\ output_map = {}
  /\ leagueless = {}
  /\ pruns = 1
  /\ prev_clean = FALSE

Init ==
  /\ InitClient
  /\ InitProcess
  /\ InitPool
  /\ InitHarness
  /\ checkpoint_file = NoFile
  /\ output_file = NoOutput
  /\ runs = 1
  /\ last_save = NoSave
  /\ prev_found = FALSE
  /\ cancelled_p = None

\* ---------------------------------------------------------- client steps
\* fetch_single_match_league_data is entered.
Fetch ==
  /\ dpc = "idle"
  /\ dpc' = "wait"
  /\ calls_recorded' = 0
  /\ attempt' = 0
  /\ sent' = <<>>
  /\ slept' = <<>>
  /\ UNCHANGED <<now, trackers, current_key_index, total_calls, failed_calls,
                 network_errors, key_idx, header_key, result, unauthorized,
                 record_calls>>
  /\ UNCHANGED <<jvars, pvars, hvars>>

\* wait_for_available_key: one pass of its loop that finds a key, followed by
\* the construction of the headers.
WaitReturn ==
  /\ dpc = "wait"
  /\ LET idx == get_available_key_index IN
       /\ idx # None
       /\ trackers' = CleanedTrackers(Scanned(idx))
       /\ current_key_index' = idx
       /\ key_idx' = idx
       /\ header_key' = get_current_key(idx)
  /\ dpc' = "post"
  /\ UNCHANGED <<now, total_calls, failed_calls, network_errors, attempt,
                 result, calls_recorded, unauthorized, sent, slept,
                 record_calls>>
  /\ UNCHANGED <<jvars, pvars, hvars>>

\* A wait that sleeps for the largest of the keys' waits.
MinWait_Largest ==
  SetMax({time_until_available(trackers[i], now) : i \in Keys})

\* min_wait = min(wait_times) over the trackers of all keys.
MinWait ==
  SetMin({time_until_available(trackers[i], now) : i \in Keys})

\* wait_for_available_key: one pass of its loop that finds no key and sleeps.
\* The 0.1 s margin moves the whole-second clock by 0 or 1.
WaitSleepPass ==
  /\ dpc = "wait"
  /\ get_available_key_index = None
  /\ trackers' = CleanedTrackers(Keys)
  /\ \E margin \in 0 .. 1 :
       /\ now' = now + (IF MinWait > 0 THEN MinWait ELSE 0) + margin
       /\ slept' = Append(slept, now' - now)
  /\ UNCHANGED <<current_key_index, total_calls, failed_calls, network_errors,
                 dpc, key_idx, header_key, attempt, result, calls_recorded,
                 unauthorized, sent, record_calls>>
  /\ UNCHANGED <<jvars, pvars, hvars>>

\* The pass while the client has time left.
WaitSleep == WaitSleepPass /\ now' <= MaxTime

\* The effects of one pass of a retry loop whose request was answered as r
\* at time t and handled as o says; again tells that the function calls
\* itself for the item instead of going on with its loop.
ApplyOutcome(r, o, t, again) ==
  /\ now' = t + o.sleep
  /\ trackers' = IF o.record
                   THEN [trackers EXCEPT ![key_idx] = record_call(@, t)]
                   ELSE trackers
  /\ calls_recorded' = calls_recorded + (IF o.record THEN 1 ELSE 0)
  /\ record_calls' = record_calls + (IF o.record THEN 1 ELSE 0)
  /\ total_calls' = total_calls + (IF o.record THEN 1 ELSE 0)
  /\ failed_calls' = failed_calls + o.failed
  /\ network_errors' = network_errors + o.neterr
  /\ current_key_index' = IF o.rotate
                            THEN NextKey(current_key_index)
                            ELSE current_key_index
  /\ unauthorized' = IF r = "s401" THEN unauthorized \cup {header_key}
                                   ELSE unauthorized
  /\ sent' = Append(sent, [key |-> header_key, response |-> r,
                             charged |-> IF o.record THEN key_idx ELSE None,
                             sleep |-> o.sleep])
  /\ IF again
       THEN /\ dpc' = "wait"
            /\ result' = result
            /\ attempt' = 0
       ELSE IF o.return
         THEN /\ dpc' = "idle"
              /\ result' = o.value
              /\ attempt' = attempt
         ELSE /\ dpc' = "post"
              /\ result' = result
              /\ attempt' = attempt + 1
  /\ UNCHANGED <<key_idx, header_key, slept>>
  /\ UNCHANGED <<jvars, pvars, hvars>>

\* One pass of the retry loop: the request is sent with header_key, takes
\* latency seconds and ends as r.
AttemptWith(r, latency) ==
  /\ dpc = "post"
  /\ \E payload \in Payloads :
       ApplyOutcome(r, Outcome(r, attempt, payload), now + latency, FALSE)

\* A pass made while the client has attempts and time left.
Attempt(r) ==
  /\ total_calls + network_errors < MaxCalls
  /\ \E latency \in Latencies : AttemptWith(r, latency)
  /\ now' <= MaxTime

Next ==
  \/ Fetch
  \/ WaitReturn
  \/ WaitSleep
  \/ \E r \in Responses : Attempt(r)

Spec == Init /\ [][Next]_vars

\* ------------------------------------------------- one call on its own
\* The first call of fetch_single_match_league_data of a new client.
FirstFetch == key_idx = None /\ Fetch

\* A pass of its retry loop, however late the backoff has made it.
LoopPass(r) == \E latency \in Latencies : AttemptWith(r, latency)

NextFetch ==
  \/ FirstFetch
  \/ WaitReturn
  \/ \E r \in Responses : LoopPass(r)

SpecFetch == Init /\ [][NextFetch]_vars

\* ------------------------------------- the wait with the clock left free
\* A pass of the retry loop while the client has attempts left, however late.
CallPass(r) ==
  /\ total_calls + network_errors < MaxRecords
  /\ LoopPass(r)

\* The requests that fill the windows before a wait: answered with data
\* (the call returns), answered 429 (rotation, a fixed sleep and another
\* request with the same key_idx).
WaitLoad == {"data", "s429"}

NextWait ==
  \/ Fetch
  \/ WaitReturn
  \/ WaitSleepPass
  \/ \E r \in WaitLoad : CallPass(r)

\* The thread that runs wait_for_available_key goes on running: a pass of
\* its loop that can be made is made.
SpecWait ==
  /\ Init
  /\ [][NextWait]_vars
  /\ WF_vars(WaitSleepPass)
  /\ WF_vars(WaitReturn)

\* ------------------------------- one call of add_league_tier_single.py
\* A pass of the retry loop of add_league_tier_single.py.  Its recursive
\* call enters the function again: wait_for_available_key, new headers, a
\* new loop; what the inner call returns the outer call returns at once.
PassSingle(r) ==
  /\ dpc = "post"
  /\ Len(sent) < MaxSent
  /\ \E latency \in Latencies, payload \in Payloads :
       LET o == OutcomeSingle(r, attempt, payload)
       IN ApplyOutcome(r, o, now + latency, o.recurse)

NextSingle ==
  \/ FirstFetch
  \/ WaitReturn
  \/ WaitSleep
  \/ \E r \in Responses : PassSingle(r)

SpecSingle == Init /\ [][NextSingle]_vars

\* ------------------------------------------------------------- job steps
stats == <<total_calls, failed_calls, network_errors>>
jloop == <<matches, processed_ids, match_ids, pos, processed, league_data,
           last_fetch,
           save_return>>
jrun == <<dispatched, resumed, resumed_from, interrupted, final_saves, inflight>>
jjob == <<runs, last_save, prev_found, crashed_at>>

\* main: checkpoint = load_checkpoint(), then matches from it or from the
\* input file.
MainLoadWith(checkpoint) ==
  /\ jpc = "main_load"
  /\ matches' = IF checkpoint.found THEN checkpoint.doc.matches ELSE INPUT
  /\ jpc' = "pm_load"
  /\ UNCHANGED <<processed_ids, match_ids, pos, processed, league_data, last_fetch,
                 save_return, checkpoint_file, output_file>>
  /\ UNCHANGED <<jrun, jjob, cancelled_p, stats, dfixed, pvars, hvars>>

MainLoad == MainLoadWith(load_checkpoint(checkpoint_file))

\* process_matches up to its try: checkpoint = load_checkpoint(), then the
\* resumed or the fresh plan.
ProcessLoadWith(checkpoint) ==
  /\ jpc = "pm_load"
  /\ IF checkpoint.found
       THEN /\ matches' = checkpoint.doc.matches
            /\ processed_ids' = Range(checkpoint.doc.processed_ids)
            /\ match_ids' = RemainingIds(matches', processed_ids')
            /\ resumed' = TRUE
       ELSE /\ matches' = matches
            /\ processed_ids' = {}
            /\ match_ids' = KeysOf(matches)
            /\ resumed' = FALSE
  /\ processed' = Cardinality(processed_ids')
  /\ resumed_from' = processed_ids'
  /\ pos' = 0
  /\ jpc' = "loop"
  /\ UNCHANGED <<league_data, last_fetch, save_return, checkpoint_file, output_file,
                 dispatched, interrupted, final_saves, inflight>>
  /\ UNCHANGED <<jjob, cancelled_p, stats, dfixed, pvars, hvars>>

ProcessLoad == ProcessLoadWith(load_checkpoint(checkpoint_file))

\* The for statement takes the next id and calls the fetch for it.
LoopNext ==
  /\ jpc = "loop"
  /\ pos < Len(match_ids)
  /\ dispatched' = Append(dispatched, match_ids[pos + 1])
  /\ jpc' = "fetch"
  /\ UNCHANGED <<jloop, checkpoint_file, output_file, resumed, resumed_from,
                 interrupted, final_saves, inflight>>
  /\ UNCHANGED <<jjob, cancelled_p, stats, dfixed, pvars, hvars>>

\* The for statement is exhausted.
LoopEnd ==
  /\ jpc = "loop"
  /\ pos = Len(match_ids)
  /\ jpc' = "after_loop"
  /\ UNCHANGED <<jloop, checkpoint_file, output_file, jrun, jjob, cancelled_p, stats, dfixed, pvars, hvars>>

\* fetch_single_match_league_data runs to its return on the outcomes s.
JobFetch ==
  /\ jpc = "fetch"
  /\ \E s \in ResponseScripts, payload \in Payloads :
       LET r == FetchRun(s, Len(s), payload) IN
         /\ league_data' = r.value
         /\ last_fetch' = [id |-> match_ids[pos + 1], script |-> s]
         /\ total_calls' = total_calls + r.calls
         /\ failed_calls' = failed_calls + r.failed
         /\ network_errors' = network_errors + r.neterr
  /\ jpc' = "merge"
  /\ UNCHANGED <<matches, processed_ids, match_ids, pos, processed, save_return,
                 checkpoint_file, output_file>>
  /\ UNCHANGED <<jrun, jjob, cancelled_p, dfixed, pvars, hvars>>

\* if league_data: ... else: ...
Merge ==
  /\ jpc = "merge"
  /\ matches' = Merged(matches, match_ids[pos + 1], league_data)
  /\ jpc' = "mark"
  /\ UNCHANGED <<processed_ids, match_ids, pos, processed, league_data, last_fetch,
                 save_return, checkpoint_file, output_file>>
  /\ UNCHANGED <<jrun, jjob, cancelled_p, stats, dfixed, pvars, hvars>>

\* A loop that never saves a checkpoint of its own.
CheckpointDue_Never(n) == FALSE

\* if processed % CHECKPOINT_INTERVAL == 0
CheckpointDue(n) == n % CHECKPOINT_INTERVAL = 0

\* processed_ids.add(match_id); processed += 1; the test of the interval.
Mark ==
  /\ jpc = "mark"
  /\ processed_ids' = processed_ids \cup {match_ids[pos + 1]}
  /\ processed' = processed + 1
  /\ IF CheckpointDue(processed')
       THEN /\ jpc' = "save_open"
            /\ save_return' = "loop"
            /\ pos' = pos
       ELSE /\ jpc' = "loop"
            /\ save_return' = save_return
            /\ pos' = pos + 1
  /\ UNCHANGED <<matches, match_ids, league_data, last_fetch, checkpoint_file, output_file>>
  /\ UNCHANGED <<jrun, jjob, cancelled_p, stats, dfixed, pvars, hvars>>

\* save_checkpoint: the dict is built and open(CHECKPOINT_FILE, 'w')
\* truncates the file.
SaveOpen ==
  /\ jpc = "save_open"
  /\ checkpoint_file' = PartialFile
  /\ prev_found' = load_checkpoint(checkpoint_file).found
  /\ jpc' = "save_dump"
  /\ UNCHANGED <<jloop, output_file, jrun, runs, last_save, cancelled_p,
                 crashed_at, stats, dfixed, pvars, hvars>>

\* A save that writes the matches as they were read from the input file.
SavedCheckpoint_InputMatches ==
  CheckpointOf(INPUT, ListOfSet(processed_ids), Stats)

\* The text save_checkpoint writes.
SavedCheckpoint == CheckpointOf(matches, ListOfSet(processed_ids), Stats)

\* A main that does not test for None and goes on to save_final_matches.
AfterHandlerSave_GoesOn == "final_open"

\* Where the handler's save_checkpoint leads: process_matches returns None
\* and main leaves with sys.exit(0).
AfterHandlerSave == "exited"

\* save_checkpoint: json.dump finishes and the file is closed; the caller
\* goes on: the loop with its next item, the handler as above.
SaveDump ==
  /\ jpc = "save_dump"
  /\ checkpoint_file' = CompleteFile(SavedCheckpoint)
  /\ IF save_return = "loop"
       THEN /\ jpc' = "loop"
            /\ pos' = pos + 1
       ELSE /\ jpc' = AfterHandlerSave
            /\ pos' = pos
  /\ final_saves' = final_saves + (IF interrupted THEN 1 ELSE 0)
  /\ last_save' = [matches |-> matches, processed_ids |-> processed_ids]
  /\ UNCHANGED <<matches, processed_ids, match_ids, processed, league_data, last_fetch,
                 save_return, output_file, dispatched, resumed, resumed_from,
                 interrupted, inflight>>
  /\ UNCHANGED <<runs, prev_found, crashed_at, cancelled_p, stats, dfixed, pvars, hvars>>

\* The periodic save_checkpoint of the loop: open or json.dump raises (no
\* space, no permission).  The only handler around the loop is the one of
\* KeyboardInterrupt: the error leaves process_matches and main, and the
\* process ends with the traceback.  (A handler's save that does not finish
\* is covered by Crash.)
SaveRaises ==
  /\ jpc \in {"save_open", "save_dump"}
  /\ save_return = "loop"
  /\ crashed_at' = jpc
  /\ jpc' = "killed"
  /\ UNCHANGED <<jloop, checkpoint_file, output_file, jrun, runs, last_save,
                 prev_found, cancelled_p, stats, dfixed, pvars, hvars>>

\* fetch_single_match_league_data raises before its own try statement:
\* int(match_id) on a manifest key that is no number.  It is no
\* KeyboardInterrupt, so it leaves process_matches and main as above.
FetchRaises ==
  /\ jpc = "fetch"
  /\ crashed_at' = jpc
  /\ jpc' = "killed"
  /\ UNCHANGED <<jloop, checkpoint_file, output_file, jrun, runs, last_save,
                 prev_found, cancelled_p, stats, dfixed, pvars, hvars>>

\* Positions inside the try statement of process_matches.
InTry == jpc \in {"loop", "fetch", "merge", "mark", "save_open", "save_dump"}

\* KeyboardInterrupt raised inside the try: the handler starts its
\* save_checkpoint.  Raised inside the fetch it leaves the function (it is no
\* Exception), after the attempts made so far.
InterruptInTry ==
  /\ InTry
  /\ ~interrupted
  /\ interrupted' = TRUE
  /\ inflight' = IF jpc \in {"fetch", "merge", "mark"}
                   THEN match_ids[pos + 1] ELSE None
  /\ IF jpc = "fetch"
       THEN \E s \in ResponseScripts, payload \in Payloads :
              \E n \in 0 .. (Len(s) - 1) :
                LET r == FetchRun(s, n, payload) IN
                  /\ total_calls' = total_calls + r.calls
                  /\ failed_calls' = failed_calls + r.failed
                  /\ network_errors' = network_errors + r.neterr
       ELSE UNCHANGED stats
  /\ cancelled_p' = Cardinality(processed_ids)
  /\ jpc' = "save_open"
  /\ save_return' = "handler"
  /\ UNCHANGED <<matches, processed_ids, match_ids, pos, processed, league_data, last_fetch,
                 checkpoint_file, output_file, dispatched, resumed,
                 resumed_from, final_saves>>
  /\ UNCHANGED <<jjob, dfixed, pvars, hvars>>

\* KeyboardInterrupt raised outside every try: the process ends with the
\* traceback.  (load_checkpoint is taken as one step: the interrupt falls
\* before or after it, not inside its own try.)
InterruptKills ==
  /\ jpc \in {"main_load", "pm_load", "after_loop", "final_open", "final_dump",
              "final_remove"}
  /\ ~interrupted
  /\ interrupted' = TRUE
  /\ cancelled_p' = IF jpc \in {"main_load", "pm_load"}
                      THEN Len(load_checkpoint(checkpoint_file).doc.processed_ids)
                      ELSE Cardinality(processed_ids)
  /\ jpc' = "killed"
  /\ UNCHANGED <<jloop, checkpoint_file, output_file, dispatched, resumed,
                 resumed_from, final_saves, inflight>>
  /\ UNCHANGED <<jjob, stats, dfixed, pvars, hvars>>

\* process_matches returns matches; main prints the statistics.
AfterLoop ==
  /\ jpc = "after_loop"
  /\ jpc' = "final_open"
  /\ UNCHANGED <<jloop, checkpoint_file, output_file, jrun, jjob, cancelled_p, stats, dfixed, pvars, hvars>>

\* save_final_matches: open(filepath, 'w').
FinalOpen ==
  /\ jpc = "final_open"
  /\ output_file' = [state |-> "partial", data |-> <<>>]
  /\ jpc' = "final_dump"
  /\ UNCHANGED <<jloop, checkpoint_file, jrun, jjob, cancelled_p, stats, dfixed, pvars, hvars>>

\* save_final_matches: json.dump finishes and the file is closed.
FinalDump ==
  /\ jpc = "final_dump"
  /\ output_file' = [state |-> "complete", data |-> matches]
  /\ jpc' = "final_remove"
  /\ UNCHANGED <<jloop, checkpoint_file, jrun, jjob, cancelled_p, stats, dfixed, pvars, hvars>>

\* save_final_matches: open or json.dump raises (no space, no permission);
\* nothing catches it.
FinalWriteFails ==
  /\ jpc \in {"final_open", "final_dump"}
  /\ jpc' = "killed"
  /\ UNCHANGED <<jloop, checkpoint_file, output_file, jrun, jjob, cancelled_p, stats, dfixed, pvars, hvars>>

\* save_final_matches: the checkpoint is removed if it exists.
FinalRemove ==
  /\ jpc = "final_remove"
  /\ checkpoint_file' = NoFile
  /\ jpc' = "done"
  /\ UNCHANGED <<jloop, output_file, jrun, jjob, cancelled_p, stats, dfixed, pvars, hvars>>

Running == jpc \notin {"done", "exited", "killed", "crashed"}

\* What a process that ends takes with it: its memory.
MemoryLost ==
  /\ matches' = <<>>
  /\ processed_ids' = {}
  /\ match_ids' = <<>>
  /\ pos' = 0
  /\ processed' = 0
  /\ league_data' = EmptyDict
  /\ last_fetch' = NoFetch
  /\ save_return' = "loop"
  /\ dispatched' = <<>>
  /\ resumed' = FALSE
  /\ resumed_from' = {}
  /\ interrupted' = FALSE
  /\ final_saves' = 0
  /\ inflight' = None
  /\ total_calls' = 0
  /\ failed_calls' = 0
  /\ network_errors' = 0

\* The process is killed or the machine stops; the files stay as they are.
Crash ==
  /\ Running
  /\ crashed_at' = jpc
  /\ jpc' = "crashed"
  /\ MemoryLost
  /\ cancelled_p' = None
  /\ UNCHANGED <<checkpoint_file, output_file, runs, last_save, prev_found,
                 dfixed, pvars, hvars>>

\* The script is started again after a run that did not finish the job.
Restart ==
  /\ jpc \in {"exited", "killed", "crashed"}
  /\ runs < MaxRuns
  /\ runs' = runs + 1
  /\ cancelled_p' = IF interrupted THEN cancelled_p ELSE None
  /\ jpc' = "main_load"
  /\ MemoryLost
  /\ crashed_at' = "none"
  /\ UNCHANGED <<checkpoint_file, output_file, last_save, prev_found, dfixed, pvars, hvars>>

NextJob ==
  \/ MainLoad
  \/ ProcessLoad
  \/ LoopNext
  \/ LoopEnd
  \/ JobFetch
  \/ Merge
  \/ Mark
  \/ SaveOpen
  \/ SaveDump
  \/ SaveRaises
  \/ FetchRaises
  \/ InterruptInTry
  \/ InterruptKills
  \/ AfterLoop
  \/ FinalOpen
  \/ FinalDump
  \/ FinalWriteFails
  \/ FinalRemove
  \/ Crash
  \/ Restart

SpecJob == Init /\ [][NextJob]_vars

\* ----------------------------------------------- the trackers on their own
\* What the tracker steps leave alone.
tfixed == <<current_key_index, total_calls, failed_calls, network_errors, dpc,
            key_idx, header_key, attempt, result, unauthorized, sent,
            slept, record_calls>>

\* record_call() on the tracker of key k (calls_recorded counts them all).
TrackerRecord(k) ==
  /\ calls_recorded < MaxRecords
  /\ trackers' = [trackers EXCEPT ![k] = record_call(@, now)]
  /\ calls_recorded' = calls_recorded + 1
  /\ UNCHANGED <<now, tfixed, jvars, pvars, hvars>>

\* can_make_call(), time_until_available() or get_stats() on the tracker of
\* key k: the lists are replaced by the cleaned ones.
TrackerClean(k) ==
  /\ trackers' = [trackers EXCEPT ![k] = clean_old_calls(@, now)]
  /\ trackers' # trackers
  /\ UNCHANGED <<now, calls_recorded, tfixed, jvars, pvars, hvars>>

\* A second passes.
TrackerTick ==
  /\ now < MaxTime
  /\ now' = now + 1
  /\ UNCHANGED <<trackers, calls_recorded, tfixed, jvars, pvars, hvars>>

\* The trackers are independent objects: one of them is driven.
TrackedKey == SetMin(Keys)

NextTracker ==
  \/ TrackerRecord(TrackedKey)
  \/ TrackerClean(TrackedKey)
  \/ TrackerTick

SpecTracker == Init /\ [][NextTracker]_vars


\* ---------------------------------------------- fetch_match_leagues.py
\* What the steps of the pool leave alone.
pfixed == <<dvars, jvars, hvars, leagueless, pruns, prev_clean>>

\* The history of a run, left alone by the steps it does not record.
phist == <<wanswer, takes, tries, dones, writes>>

\* main up to task_q.join(): the existing mapping is read, the keys and the
\* batches with a missing id are queued; with nothing queued main returns,
\* otherwise the workers are started on result_dict = existing.  What the
\* service holds is settled when the script is first started.
PoolMain ==
  /\ mpc = "start"
  /\ leagueless' \in IF pruns = 1 THEN ServiceData ELSE {leagueless}
  /\ started_from' = output_map
  /\ queued' = NewBatches(output_map)
  /\ key_q' = [i \in 1 .. NumKeys |-> i - 1]
  /\ IF queued' = <<>>
       THEN /\ mpc' = "nothing"
            /\ UNCHANGED <<result_dict, task_q, unfinished, wpc>>
       ELSE /\ mpc' = "join"
            /\ result_dict' = output_map
            /\ task_q' = queued'
            /\ unfinished' = Len(queued')
            /\ wpc' = [w \in Workers |-> "get_task"]
  /\ UNCHANGED <<output_map, lock, wbatch, wkey, wretry, wwake, clock, posts,
                 failures, dvars, jvars, hvars, pruns, prev_clean, phist>>

\* batch = self.task_queue.get(timeout=3)
TakeTask(w) ==
  /\ wpc[w] = "get_task"
  /\ task_q # <<>>
  /\ wbatch' = [wbatch EXCEPT ![w] = Head(task_q)]
  /\ task_q' = Tail(task_q)
  /\ wretry' = [wretry EXCEPT ![w] = 0]
  /\ wpc' = [wpc EXCEPT ![w] = "get_key"]
  /\ takes' = [takes EXCEPT ![BatchNo(Head(task_q))] = @ + 1]
  /\ UNCHANGED <<mpc, output_map, result_dict, unfinished, key_q, lock, wkey,
                 wwake, clock, posts, queued, started_from, failures, pfixed,
                 wanswer, tries, dones, writes>>

\* except queue.Empty: return
WorkerReturns(w) ==
  /\ wpc[w] = "get_task"
  /\ task_q = <<>>
  /\ wpc' = [wpc EXCEPT ![w] = "returned"]
  /\ UNCHANGED <<mpc, output_map, result_dict, task_q, unfinished, key_q, lock,
                 wbatch, wkey, wretry, wwake, clock, posts, queued,
                 started_from, failures, pfixed, phist>>

\* api_key = self.key_queue.get(timeout=3), then time.sleep(PER_KEY_DELAY)
\* begins.  (With no key in the queue the worker sleeps and tries again.)
TakeKey(w) ==
  /\ wpc[w] = "get_key"
  /\ key_q # <<>>
  /\ wkey' = [wkey EXCEPT ![w] = Head(key_q)]
  /\ key_q' = Tail(key_q)
  /\ wwake' = [wwake EXCEPT ![w] = WakeTime(clock)]
  /\ wpc' = [wpc EXCEPT ![w] = "sleep"]
  /\ UNCHANGED <<mpc, output_map, result_dict, task_q, unfinished, lock, wbatch,
                 wretry, clock, posts, queued, started_from, failures, pfixed, phist>>

\* requests.post after the sleep.  It ends with matches to write, or it
\* raises (timeout, HTTP error, no matches): retry_count grows and the
\* except branch gives the batch up or asks for another round.
Post(w) ==
  /\ wpc[w] = "sleep"
  /\ clock >= wwake[w]
  /\ posts' = [posts EXCEPT ![wkey[w]] = Append(@, clock)]
  /\ tries' = [tries EXCEPT ![BatchNo(wbatch[w])] = @ + 1]
  /\ \/ /\ wanswer' = [wanswer EXCEPT ![w] = "matches"]
        /\ wpc' = [wpc EXCEPT ![w] = "lock"]
        /\ UNCHANGED <<wretry, failures>>
     \/ /\ wanswer' \in {[wanswer EXCEPT ![w] = a] : a \in {"empty", "raised"}}
        /\ wretry' = [wretry EXCEPT ![w] = @ + 1]
        /\ failures' = failures + 1
        /\ wpc' = [wpc EXCEPT ![w] = IF Exhausted(wretry'[w])
                                       THEN "put_key_break"
                                       ELSE "put_key_again"]
  /\ UNCHANGED <<mpc, output_map, result_dict, task_q, unfinished, key_q, lock,
                 wbatch, wkey, wwake, clock, queued, started_from, pfixed,
                 takes, dones, writes>>

\* with self.lock: entered.
Acquire(w) ==
  /\ wpc[w] = "lock"
  /\ LockFree(lock)
  /\ lock' = w
  /\ wpc' = [wpc EXCEPT ![w] = "write"]
  /\ UNCHANGED <<mpc, output_map, result_dict, task_q, unfinished, key_q,
                 wbatch, wkey, wretry, wwake, clock, posts, queued,
                 started_from, failures, pfixed, phist>>

\* The loop over matches: self.result_dict[str(match['id'])] = {...} for
\* every match with a league.
Write(w) ==
  /\ wpc[w] = "write"
  /\ result_dict' = result_dict \cup Written(wbatch[w])
  /\ wpc' = [wpc EXCEPT ![w] = "release"]
  /\ UNCHANGED <<mpc, output_map, task_q, unfinished, key_q, lock, wbatch, wkey,
                 wretry, wwake, clock, posts, queued, started_from, failures,
                 pfixed, phist>>

\* The with statement is left; break.
Release(w) ==
  /\ wpc[w] = "release"
  /\ lock' = IF lock = w THEN 0 ELSE lock
  /\ wpc' = [wpc EXCEPT ![w] = "put_key_break"]
  /\ UNCHANGED <<mpc, output_map, result_dict, task_q, unfinished, key_q,
                 wbatch, wkey, wretry, wwake, clock, posts, queued,
                 started_from, failures, pfixed, phist>>

\* finally: self.key_queue.put(api_key); then the inner loop goes round
\* again or is left.
PutKey(w) ==
  /\ wpc[w] \in {"put_key_break", "put_key_again"}
  /\ key_q' = PutBack(key_q, wkey[w])
  /\ wkey' = [wkey EXCEPT ![w] = None]
  /\ wanswer' = [wanswer EXCEPT ![w] = "none"]
  /\ wpc' = [wpc EXCEPT ![w] = IF wpc[w] = "put_key_break"
                                 THEN "task_done" ELSE "get_key"]
  /\ UNCHANGED <<mpc, output_map, result_dict, task_q, unfinished, lock, wbatch,
                 wretry, wwake, clock, posts, queued, started_from, failures,
                 pfixed, takes, tries, dones, writes>>

\* self.task_queue.task_done()
TaskDone(w) ==
  /\ wpc[w] = "task_done"
  /\ unfinished' = unfinished - 1
  /\ dones' = [dones EXCEPT ![BatchNo(wbatch[w])] = @ + 1]
  /\ wpc' = [wpc EXCEPT ![w] = "get_task"]
  /\ UNCHANGED <<mpc, output_map, result_dict, task_q, key_q, lock, wbatch,
                 wkey, wretry, wwake, clock, posts, queued, started_from,
                 failures, pfixed, wanswer, takes, tries, writes>>

\* task_q.join() returns and main writes result_dict to OUTPUT_FILE.
PoolWrite ==
  /\ mpc = "join"
  /\ unfinished = 0
  /\ output_map' = result_dict
  /\ writes' = writes + 1
  /\ mpc' = "done"
  /\ UNCHANGED <<result_dict, task_q, unfinished, key_q, lock, wpc, wbatch,
                 wkey, wretry, wwake, clock, posts, queued, started_from,
                 failures, pfixed, wanswer, takes, tries, dones>>

\* Time passes while the pool runs.
PoolTick ==
  /\ mpc = "join"
  /\ clock < MaxPoolTime
  /\ clock' = clock + 1
  /\ UNCHANGED <<mpc, output_map, result_dict, task_q, unfinished, key_q, lock,
                 wpc, wbatch, wkey, wretry, wwake, posts, queued,
                 started_from, failures, pfixed, phist>>

\* The script has ended and is started again on the file it left.
PoolRerun ==
  /\ mpc \in {"done", "nothing"}
  /\ pruns < MaxRuns
  /\ pruns' = pruns + 1
  /\ prev_clean' = (failures = 0)
  /\ mpc' = "start"
  /\ result_dict' = {}
  /\ task_q' = <<>>
  /\ unfinished' = 0
  /\ key_q' = <<>>
  /\ lock' = 0
  /\ wpc' = [w \in Workers |-> "unstarted"]
  /\ wbatch' = [w \in Workers |-> <<>>]
  /\ wkey' = [w \in Workers |-> None]
  /\ wretry' = [w \in Workers |-> 0]
  /\ wwake' = [w \in Workers |-> 0]
  /\ clock' = 0
  /\ posts' = [k \in Keys |-> <<>>]
  /\ queued' = <<>>
  /\ started_from' = {}
  /\ failures' = 0
  /\ wanswer' = [w \in Workers |-> "none"]
  /\ takes' = [i \in DOMAIN AllBatches |-> 0]
  /\ tries' = [i \in DOMAIN AllBatches |-> 0]
  /\ dones' = [i \in DOMAIN AllBatches |-> 0]
  /\ writes' = 0
  /\ UNCHANGED <<output_map, leagueless, dvars, jvars, hvars>>

NextPool ==
  \/ PoolMain
  \/ \E w \in Workers : TakeTask(w)
  \/ \E w \in Workers : WorkerReturns(w)
  \/ \E w \in Workers : TakeKey(w)
  \/ \E w \in Workers : Post(w)
  \/ \E w \in Workers : Acquire(w)
  \/ \E w \in Workers : Write(w)
  \/ \E w \in Workers : Release(w)
  \/ \E w \in Workers : PutKey(w)
  \/ \E w \in Workers : TaskDone(w)
  \/ PoolWrite
  \/ PoolTick
  \/ PoolRerun

SpecPool == Init /\ [][NextPool]_vars

\* Time passes while a worker is in its time.sleep(PER_KEY_DELAY).
PoolTickDue ==
  /\ mpc = "join"
  /\ \E w \in Workers : wpc[w] = "sleep" /\ clock < wwake[w]
  /\ clock' = clock + 1
  /\ UNCHANGED <<mpc, output_map, result_dict, task_q, unfinished, key_q, lock,
                 wpc, wbatch, wkey, wretry, wwake, posts, queued,
                 started_from, failures, pfixed, phist>>

\* A step of a thread of the pool: of a worker, of main after join, or of
\* the clock a sleeping worker waits for.
PoolStep ==
  \/ \E w \in Workers :
       \/ TakeTask(w) \/ WorkerReturns(w) \/ TakeKey(w) \/ Post(w)
       \/ Acquire(w) \/ Write(w) \/ Release(w) \/ PutKey(w) \/ TaskDone(w)
  \/ PoolWrite
  \/ PoolTickDue

\* ------------------------------------------- the two functions applied
\* One pass of the loop of process_matches: a batch of a dict whose entries
\* have league fields or not, and a response for any of the ids.
BatchMerge ==
  /\ hpc = "none"
  /\ hpc' = "merged"
  /\ bmatches' \in [BatchIds -> {EmptyDict} \cup LeagueFields]
  /\ \E b \in 0 .. (NumMatches - 1) \div BatchSize :
       batch_ids' = BatchSlice(b * BatchSize, BatchSize)
  /\ \E named \in SUBSET (BatchIds \cup {ForeignId}) :
       bleague_data' \in [named -> LeagueFields]
  /\ bmerged' = MergeBatch(bmatches', batch_ids', bleague_data')
  /\ UNCHANGED <<iterable, size, chunks>>
  /\ UNCHANGED <<dvars, jvars, pvars>>

SpecMerge == Init /\ [][BatchMerge]_vars

\* chunked applied to a sequence of items, equal ones among them.
Chunk ==
  /\ hpc = "none"
  /\ hpc' = "chunked"
  /\ \E len \in 0 .. MaxLen : iterable' \in [1 .. len -> 1 .. 2]
  /\ size' \in 1 .. MaxSize
  /\ chunks' = chunked(iterable', size')
  /\ UNCHANGED <<bmatches, batch_ids, bleague_data, bmerged>>
  /\ UNCHANGED <<dvars, jvars, pvars>>

SpecChunks == Init /\ [][Chunk]_vars

\* ------------------------------------------------------------------ C1
\* A tracker's lists hold every recorded call that was not yet cleaned, and
\* only calls at least one window old are ever cleaned: the calls of a list
\* younger than the window are the calls recorded in the trailing window.
CallsInWindow(calls, window) == Len(Recent(calls, window, now))

\* C1: for every key and every window, the number of calls recorded against
\* the key's tracker within the trailing window never exceeds the window's
\* limit, in any run of wait_for_available_key and the retry loop.
C1_WindowLimitsRespected ==
  \A k \in Keys :
    /\ CallsInWindow(trackers[k].calls_second, WindowSecond) <= LimitSecond
    /\ CallsInWindow(trackers[k].calls_minute, WindowMinute) <= LimitMinute
    /\ CallsInWindow(trackers[k].calls_hour, WindowHour) <= LimitHour
    /\ CallsInWindow(trackers[k].calls_day, WindowDay) <= LimitDay

\* ------------------------------------------------------------------ C2
\* wait_for_available_key has just returned key_idx.
KeyJustAcquired == dpc = "post" /\ attempt = 0

\* C2: once a request made with key k was answered 401, no later call of
\* wait_for_available_key returns k.
C2_UnauthorizedKeyNeverReturned ==
  KeyJustAcquired => key_idx \notin unauthorized

\* ------------------------------------------------------------------ C3
\* fetch_single_match_league_data has returned (at least once).
FetchReturned == dpc = "idle" /\ key_idx # None

\* C3: every request attempt made for an item, whatever its outcome, records
\* exactly one call against the tracker of the key used: inside the loop the
\* calls recorded equal the attempts finished, and at the return they equal
\* the attempts made (4 after three transient failures and a success).
C3_OneRecordedCallPerAttempt ==
  /\ dpc = "post" => calls_recorded = attempt
  /\ FetchReturned => calls_recorded = attempt + 1

\* ------------------------------------------------------------------ C4
CrashedInSave == jpc = "crashed" /\ crashed_at \in {"save_open", "save_dump"}

\* C4: save_checkpoint replaces the checkpoint atomically: after a crash at
\* any point of save_checkpoint, load_checkpoint returns a complete
\* checkpoint, the previous or the new one, never nothing.  (A file of the
\* model holds a whole checkpoint or is cut off, so the case to find is a
\* crash that leaves nothing to load where a checkpoint could be loaded
\* before the save began.)
C4_CrashDuringSaveKeepsCheckpoint ==
  (CrashedInSave /\ prev_found) => load_checkpoint(checkpoint_file).found

\* ------------------------------------------------------------------ C5
ManifestIds == KeysOf(INPUT)
LoopFinished == jpc \in {"after_loop", "final_open", "final_dump",
                         "final_remove", "done"}
IsPrefix(a, b) == Len(a) <= Len(b) /\ a = SubSeq(b, 1, Len(a))

\* The manifest ids that are not in the processed_ids the run loaded, in
\* manifest order.
NotYetProcessed == SelectSeq(ManifestIds, LAMBDA id : id \notin resumed_from)

\* C5: a run of process_matches that starts from a loaded checkpoint calls
\* the fetch for exactly the manifest ids that are not in the checkpoint's
\* processed_ids, in manifest order: what it has dispatched is always a
\* prefix of them, and all of them once its loop has finished.
C5_ResumeDispatchesExactlyTheRest ==
  resumed =>
    /\ IsPrefix(dispatched, NotYetProcessed)
    /\ LoopFinished => dispatched = NotYetProcessed

C5_Witness ==
  /\ resumed
  /\ jpc = "after_loop"
  /\ resumed_from # {}
  /\ dispatched # <<>>

\* ------------------------------------------------------------------ C6
HasAllFields(entry) == \A f \in DOMAIN entry : entry[f] # "absent"
StoreComplete ==
  /\ KeysOf(matches) = ManifestIds
  /\ \A i \in 1 .. Len(matches) : HasAllFields(matches[i].entry)

\* C6: the run that follows a run cancelled by KeyboardInterrupt after p of
\* the n manifest items were processed dispatches exactly n - p items, and
\* when its loop has finished the result store has an entry for all n.
C6_RestartDispatchesNMinusP ==
  (cancelled_p # None /\ ~interrupted /\ LoopFinished) =>
    /\ Len(dispatched) = NumMatches - cancelled_p
    /\ StoreComplete

\* ------------------------------------------------------------------ C7
\* process_matches has just set up its plan and has fetched nothing yet.
JustLoaded == jpc = "loop" /\ dispatched = <<>>

\* C7: loading the checkpoint that save_checkpoint wrote yields the
\* processed-id set and the result store that were passed to it.
C7_LoadYieldsWhatWasSaved ==
  (resumed /\ JustLoaded) =>
    /\ processed_ids = last_save.processed_ids
    /\ matches = last_save.matches

\* The round trip of a full processed set, with merged entries.
C7_Witness ==
  /\ resumed
  /\ JustLoaded
  /\ processed_ids = Range(ManifestIds)
  /\ StoreComplete

\* ------------------------------------------------------------------ C8
ProcessGone == jpc \in {"exited", "killed"}

\* C8: a KeyboardInterrupt arriving at any point of a run leaves the item in
\* flight out of processed_ids and causes exactly one final checkpoint save
\* before the process exits.  (Stated for the runs that have processed
\* something when the process exits: they have progress to save.)
C8_InterruptSavesExactlyOnce ==
  (interrupted /\ ProcessGone /\ processed_ids # {}) =>
    /\ final_saves = 1
    /\ inflight # None => inflight \notin processed_ids

\* ------------------------------------------------------------------ C9
\* C9: the checkpoint file is removed only by a step taken when every
\* manifest id is processed and the output file holds the whole result
\* store; no other step (interruption, failed output write, crash) removes
\* it.
C9_CheckpointRemovedOnlyAfterOutput ==
  [][ (checkpoint_file.state # "absent" /\ checkpoint_file'.state = "absent")
        => /\ processed_ids = Range(ManifestIds)
           /\ StoreComplete
           /\ output_file.state = "complete"
           /\ output_file.data = matches ]_vars

\* A resumed run has finished the job and removed the checkpoint it loaded.
C9_Witness ==
  /\ jpc = "done"
  /\ resumed
  /\ checkpoint_file.state = "absent"
  /\ output_file.state = "complete"

\* ----------------------------------------------------------------- C10
\* C10: processed_ids never loses an element across interruptions, crashes
\* during a save and restarts: the processed set a run starts from contains
\* every id of the last checkpoint save.  (Stated for the last save that
\* finished: its ids were on disk, and every later save that was started
\* had them too.)
C10_ProcessedIdsNeverShrink ==
  JustLoaded => last_save.processed_ids \subseteq processed_ids

\* ----------------------------------------------------------------- C11
\* The store m has an entry for id that carries the three league fields.
HasEntry(m, id) ==
  \E i \in 1 .. Len(m) : m[i].id = id /\ HasAllFields(m[i].entry)

\* C11: at every point of process_matches, the point where the handler of
\* KeyboardInterrupt saves the checkpoint included, every id in processed_ids
\* has an entry in matches carrying leagueId, leagueName and leagueTier
\* (values or null); the same holds of the pair a complete checkpoint file
\* holds.
C11_ProcessedIdsHaveEntries ==
  /\ \A id \in processed_ids : HasEntry(matches, id)
  /\ checkpoint_file.state = "complete" =>
       \A id \in Range(checkpoint_file.doc.processed_ids) :
          HasEntry(checkpoint_file.doc.matches, id)

\* The handler is about to write a checkpoint whose last processed item got
\* an empty answer, while another item is in flight.
C11_Witness ==
  /\ jpc = "save_dump"
  /\ save_return = "handler"
  /\ inflight # None
  /\ \E i \in 1 .. Len(matches) :
       matches[i].id \in processed_ids /\ matches[i].entry = NullLeague

\* ----------------------------------------------------------------- C12
\* wait_for_available_key is running and some key can call now.
SomeKeyCanCall ==
  dpc = "wait" /\ \E k \in Keys : can_make_call(trackers[k], now)

\* The key the claim names: the current one if it can call, otherwise the
\* first in index order that can.
PreferredOrFirst(preferred) ==
  IF can_make_call(trackers[preferred], now) THEN preferred
  ELSE SetMin({k \in Keys : can_make_call(trackers[k], now)})

\* C12: whenever at least one key can call now, wait_for_available_key
\* returns without sleeping; it returns the current key (current_key_index:
\* the key the previous call returned, or the one a 429 or 401 rotated to)
\* if that key can call, otherwise the first key in index order that can
\* call, and it makes the returned key the current key.
C12_ReturnsCurrentOrFirstWithoutSleep ==
  [][ SomeKeyCanCall =>
        /\ dpc' = "post"
        /\ now' = now
        /\ key_idx' = PreferredOrFirst(current_key_index)
        /\ current_key_index' = key_idx' ]_vars

\* Two keys, key 0 saturated and key 1 available: the call has returned
\* key 1.
C12_Witness ==
  /\ KeyJustAcquired
  /\ key_idx = 1
  /\ current_key_index = 1
  /\ ~can_make_call(trackers[0], now)

\* C12 as stated, with the current key read as the last-used key: whenever
\* the key of the last request can call now, wait_for_available_key returns
\* it.
C12_LastUsedKeyPreferred ==
  [][ (dpc = "wait" /\ key_idx # None /\ can_make_call(trackers[key_idx], now))
        => key_idx' = key_idx ]_vars

\* ----------------------------------------------------------------- C13
\* The entries of a list whose age at time now is below the window duration.
Younger(calls, window) == {i \in DOMAIN calls : now - calls[i] < window}

\* Each of the four windows of tr holds fewer such entries than its limit.
AllWindowsBelowLimit(tr) ==
  /\ Cardinality(Younger(tr.calls_second, WindowSecond)) < LimitSecond
  /\ Cardinality(Younger(tr.calls_minute, WindowMinute)) < LimitMinute
  /\ Cardinality(Younger(tr.calls_hour, WindowHour)) < LimitHour
  /\ Cardinality(Younger(tr.calls_day, WindowDay)) < LimitDay

\* cleaned is calls without the entries aged a window or more.
DroppedOld(cleaned, calls, window) ==
  /\ Len(cleaned) = Cardinality(Younger(calls, window))
  /\ \A i \in DOMAIN cleaned : now - cleaned[i] < window

\* C13: can_make_call first drops from each window every timestamp whose
\* age is at least the window duration, then answers true exactly when each
\* of the four windows holds fewer timestamps than its limit; a tracker with
\* no recorded calls always answers true.
C13_CanMakeCallIffAllWindowsBelowLimit ==
  /\ \A k \in Keys :
       LET tr == trackers[k]
           c == clean_old_calls(tr, now)
       IN /\ DroppedOld(c.calls_second, tr.calls_second, WindowSecond)
          /\ DroppedOld(c.calls_minute, tr.calls_minute, WindowMinute)
          /\ DroppedOld(c.calls_hour, tr.calls_hour, WindowHour)
          /\ DroppedOld(c.calls_day, tr.calls_day, WindowDay)
          /\ can_make_call(tr, now) <=> AllWindowsBelowLimit(tr)
  /\ can_make_call(NewTracker, now)

\* A key whose one-second list is full of calls that are a second old, and
\* which can call again because they are dropped.
C13_Witness ==
  \E k \in Keys :
    /\ Len(trackers[k].calls_second) >= LimitSecond
    /\ \E i \in DOMAIN trackers[k].calls_second :
         now - trackers[k].calls_second[i] = WindowSecond
    /\ can_make_call(trackers[k], now)

\* ----------------------------------------------------------------- C14
\* The wait a window asks for: nothing while it holds fewer young entries
\* than its limit, else its duration minus the age of the oldest of them.
WindowWaits(calls, window, limit) ==
  LET young == Younger(calls, window) IN
    IF Cardinality(young) >= limit
      THEN {window - (now - calls[i]) :
              i \in {j \in young : \A h \in young : calls[j] <= calls[h]}}
      ELSE {}

SaturatedWaits(tr) ==
  WindowWaits(tr.calls_second, WindowSecond, LimitSecond)
    \cup WindowWaits(tr.calls_minute, WindowMinute, LimitMinute)
    \cup WindowWaits(tr.calls_hour, WindowHour, LimitHour)
    \cup WindowWaits(tr.calls_day, WindowDay, LimitDay)

\* C14: time_until_available prunes, then returns the maximum, over the
\* windows whose count is at or above the limit, of the window duration
\* minus the age of the window's oldest remaining timestamp, and zero if no
\* window is at its limit.
C14_WaitIsMaxOverSaturatedWindows ==
  \A k \in Keys :
    LET w == time_until_available(trackers[k], now)
        waits == SaturatedWaits(trackers[k])
    IN IF waits = {} THEN w = 0
       ELSE w \in waits /\ \A x \in waits : x <= w

\* A key with two windows at their limits that ask for different waits.
C14_Witness ==
  \E k \in Keys :
    /\ Cardinality(SaturatedWaits(trackers[k])) >= 2
    /\ time_until_available(trackers[k], now) > 1

\* ----------------------------------------------------------------- C15
\* C15: in every reachable tracker state, if time_until_available returns t
\* and the clock then advances by exactly t with no call recorded in
\* between, can_make_call returns true.
C15_AvailableAfterWait ==
  \A k \in Keys :
    can_make_call(trackers[k], now + time_until_available(trackers[k], now))

\* ----------------------------------------------------------------- C16
\* The calls ever recorded on the driven tracker are n calls, all made at
\* the present instant.
RecordedAtOnce(n) ==
  trackers[TrackedKey].calls_day = [i \in 1 .. n |-> now]

\* C16: after one record_call more than the per-second limit (16 for the
\* limit 15), all issued at the same instant, can_make_call returns false
\* and time_until_available returns a value greater than 0 and at most one
\* second.
C16_BurstOverSecondLimitWaitsUpToOneSecond ==
  RecordedAtOnce(LimitSecond + 1) =>
    /\ ~can_make_call(trackers[TrackedKey], now)
    /\ time_until_available(trackers[TrackedKey], now) > 0
    /\ time_until_available(trackers[TrackedKey], now) <= WindowSecond

\* The burst has been recorded, and it saturates the one-second window only.
C16_Witness ==
  /\ RecordedAtOnce(LimitSecond + 1)
  /\ Len(trackers[TrackedKey].calls_second) = LimitSecond + 1
  /\ LimitSecond + 1 < LimitMinute

\* ----------------------------------------------------------------- C17
\* C17: when a request for an item is answered 429, the retry of that item
\* is sent with a different key than the one that was just rate-limited
\* (more than one key being configured: NumKeys is at least 2).
C17_RetryAfter429UsesAnotherKey ==
  \A i \in 1 .. (Len(sent) - 1) :
    sent[i].response = "s429" => sent[i + 1].key # sent[i].key

\* ----------------------------------------------------------------- C18
\* C18: for every item and every sequence of service responses (429 or 401
\* on every attempt included), the requests one dispatch call sends for the
\* item are bounded by a fixed constant, the largest count of the retry
\* loops, and the call returns: it is never still trying after that many
\* requests.
C18_RequestsPerCallBounded ==
  /\ Len(sent) <= max_retries
  /\ Len(sent) = max_retries => dpc = "idle"

\* ----------------------------------------------------------------- C19
\* The first request of the current call that was answered 401.
First401(i) ==
  /\ sent[i].response = "s401"
  /\ \A j \in 1 .. (i - 1) : sent[j].response # "s401"

\* C19: when a request for an item is answered 401, the dispatcher retries
\* the item exactly once, with a different key, before the call ends with
\* its terminal outcome: the call returns with exactly one request after
\* the first 401, sent with another key.
C19_RetriesOnceAfter401 ==
  FetchReturned =>
    \A i \in DOMAIN sent :
      First401(i) => /\ Len(sent) = i + 1
                     /\ sent[i + 1].key # sent[i].key

\* ----------------------------------------------------------------- C20
\* What a call returns for an item that was answered: no data, or the data.
OrdinaryResults == {EmptyDict} \cup Payloads

\* C20: when every configured key has been rejected with 401, the
\* dispatcher reports a pool-exhausted condition to its caller: the value
\* the call returns is not one it returns for an answered item.
C20_AllKeysRejectedIsReported ==
  (FetchReturned /\ unauthorized = Keys) => result \notin OrdinaryResults

\* ----------------------------------------------------------------- C21
\* Every request of the fetch ended in a timeout, a connection error or a
\* status other than 200, 401 and 429.
TransientOnly(s) ==
  s # <<>> /\ \A i \in DOMAIN s : s[i] \in {"exc", "s5xx"}

\* The entry the store m holds for id.
EntryOf(m, id) == m[CHOOSE i \in 1 .. Len(m) : m[i].id = id].entry

\* Positions of the loop body between the return of the fetch and
\* processed_ids.add.
BeforeAdd == jpc \in {"merge", "mark"}

\* C21: an item whose requests all ended in transient failures was
\* requested at most max_retries times; its fetch returned the empty dict,
\* the loop body gives it the entry of three nulls and adds it to
\* processed_ids, and the loop goes on to the next item: a run that ends
\* before the manifest is through ends by an interrupt, a failed save or a
\* manifest key that is no number.
C21_TransientFailureIsContained ==
  TransientOnly(last_fetch.script) =>
    LET run == FetchRun(last_fetch.script, Len(last_fetch.script),
                        CHOOSE p \in Payloads : TRUE)
        id == last_fetch.id
    IN /\ run.attempt <= max_retries
       /\ run.calls <= max_retries
       /\ run.value = EmptyDict
       /\ jpc = "merge" => league_data = EmptyDict
       /\ jpc = "mark" => EntryOf(matches, id) = NullLeague
       /\ id \in processed_ids => EntryOf(matches, id) = NullLeague
       /\ (~BeforeAdd /\ ~interrupted) => id \in processed_ids
       /\ (jpc = "killed" /\ pos < Len(match_ids)) =>
            (interrupted \/ crashed_at \in {"fetch", "save_open", "save_dump"})

\* The item after one that failed max_retries times is being fetched.
C21_Witness ==
  /\ TransientOnly(last_fetch.script)
  /\ Len(last_fetch.script) = max_retries
  /\ jpc = "fetch"
  /\ last_fetch.id \in processed_ids
  /\ match_ids[pos + 1] # last_fetch.id

\* ----------------------------------------------------------------- C22
\* C22: when a request is answered 200 with an error list, the dispatcher
\* sends no further request for the item and returns at once with the
\* failure of this item: the request is the last of the call, the call has
\* returned the empty dict and has counted a failed call.
C22_ErrorListEndsTheCall ==
  \A i \in DOMAIN sent :
    sent[i].response = "errors" =>
      /\ i = Len(sent)
      /\ dpc = "idle"
      /\ result = EmptyDict
      /\ failed_calls >= 1

\* A call was answered with an error list on a retry and has returned.
C22_Witness ==
  /\ FetchReturned
  /\ Len(sent) > 1
  /\ sent[Len(sent)].response = "errors"

\* ----------------------------------------------------------------- C23
\* The fetch gave the item up: the service answered with an error list, or
\* every one of max_retries requests failed.
PermanentlyFailed(s) ==
  /\ s # <<>>
  /\ \/ s[Len(s)] = "errors"
     \/ TransientOnly(s) /\ Len(s) = max_retries

\* The entry the loop body gives id when the service answers that the match
\* has no data.
NoDataEntry(m, id) ==
  LET answer == FetchRun(<<"nodata">>, 1, CHOOSE p \in Payloads : TRUE)
  IN EntryOf(Merged(m, id, answer.value), id)

\* C23: in the result store, the entry of an item the fetch gave up differs
\* from the entry the item gets when the service answers that it has no data.
C23_FailureDiffersFromNoData ==
  (PermanentlyFailed(last_fetch.script) /\ last_fetch.id \in processed_ids) =>
    EntryOf(matches, last_fetch.id) # NoDataEntry(matches, last_fetch.id)

\* ----------------------------------------------------------------- C24
\* An exception that is no KeyboardInterrupt was raised inside the loop of
\* process_matches and has left the function.
ErrorLeftLoop ==
  /\ jpc = "killed"
  /\ ~interrupted
  /\ crashed_at \in {"fetch", "save_open", "save_dump"}

\* C24: whenever an error has left the processing loop, whatever the error,
\* the checkpoint file holds all items processed so far: what
\* load_checkpoint reads from it is the processed_ids the loop had reached.
C24_ErrorLeavesCheckpoint ==
  ErrorLeftLoop =>
    Range(load_checkpoint(checkpoint_file).doc.processed_ids) = processed_ids

\* ----------------------------------------------------------------- C25
\* The processed ids that load_checkpoint would not find in the file now.
NotInCheckpoint ==
  processed_ids \ Range(load_checkpoint(checkpoint_file).doc.processed_ids)

\* C25: after each iteration of the loop, in a fresh run and in a resumed
\* run alike, fewer than CHECKPOINT_INTERVAL processed items are missing
\* from the checkpoint on disk.
C25_FewerThanIntervalUnsaved ==
  jpc = "loop" => Cardinality(NotInCheckpoint) < CHECKPOINT_INTERVAL

\* A run resumed from a count that is no multiple of the interval has made
\* its first periodic save.
C25_Witness ==
  /\ jpc = "loop"
  /\ resumed
  /\ ~interrupted
  /\ Cardinality(resumed_from) % CHECKPOINT_INTERVAL # 0
  /\ processed_ids # resumed_from
  /\ NotInCheckpoint = {}

\* ----------------------------------------------------------------- C27
\* A resumed run is about to save for the first time: the file still holds
\* the checkpoint the run was resumed from.
FirstSaveAfterResume ==
  /\ jpc = "save_open"
  /\ resumed
  /\ checkpoint_file.state = "complete"
  /\ Range(checkpoint_file.doc.processed_ids) = resumed_from

\* Every counter of the statistics a is at most that of b.
StatsAtMost(a, b) == \A f \in DOMAIN a : a[f] <= b[f]

\* C27: after a restart from a checkpoint the running statistics continue
\* from the values saved in it: the statistics the next save writes are not
\* smaller than those of the checkpoint that was loaded.
C27_StatsContinueAfterResume ==
  FirstSaveAfterResume => StatsAtMost(checkpoint_file.doc.stats, Stats)

\* ----------------------------------------------------------------- C26
\* wait_for_available_key is running and no key can call.
NoKeyCanCall == dpc = "wait" /\ get_available_key_index = None

\* The smallest time_until_available over the trackers of all keys.
LeastWait ==
  LET waits == {time_until_available(trackers[k], now) : k \in Keys}
  IN CHOOSE w \in waits : \A x \in waits : w <= x

\* C26: when no key can call, wait_for_available_key sleeps for the minimum
\* of time_until_available over all keys plus the margin (0 or 1 on the
\* whole-second clock) and scans again; one sleep is at most the longest
\* window plus the margin; and with time advancing and no other caller the
\* wait returns a key in the end.
C26_WaitSleepsLeastAndReturns ==
  /\ [][ NoKeyCanCall =>
           /\ dpc' = "wait"
           /\ now' - now \in {LeastWait, LeastWait + 1}
           /\ now' - now <= WindowDay + 1 ]_vars
  /\ (dpc = "wait") ~> (dpc = "post")

\* The wait has slept for more than the shortest window, has scanned again
\* and has returned a key.
C26_Witness ==
  /\ dpc = "post"
  /\ sent = <<>>
  /\ slept # <<>>
  /\ slept[1] > WindowSecond + 1

\* ----------------------------------------------------------------- C28
\* The workers that are inside the loop that writes to result_dict.
Writing == {w \in Workers : wpc[w] = "write"}

\* C28: every write to the shared result dictionary happens while the one
\* shared lock is held: a worker inside the writing loop holds the lock, so
\* no two workers are there together, and while the workers run the
\* dictionary changes only by a step of the worker that holds the lock.
C28_WritesUnderTheLock ==
  /\ [](\A w \in Writing : lock = w)
  /\ [](Cardinality(Writing) <= 1)
  /\ [][ (mpc = "join" /\ result_dict' # result_dict) =>
           (lock \in Writing /\ wpc'[lock] = "release") ]_vars

\* A worker writes while another one waits for the lock.
C28_Witness ==
  \E w, v \in Workers :
    /\ wpc[w] = "write"
    /\ wpc[v] = "lock"
    /\ Written(wbatch[w]) # {}

\* ----------------------------------------------------------------- C29
\* The requests of key k are spaced: the j-th comes at least (j - i) delays
\* after the i-th.
Spaced(k) ==
  \A i, j \in DOMAIN posts[k] :
    i < j => posts[k][j] - posts[k][i] >= (j - i) * PER_KEY_DELAY

\* C29: two requests sent with the same API key are at least PER_KEY_DELAY
\* apart, so n requests of a key take at least (n - 1) delays: with 0.35 s a
\* minute holds at most 172 of them, fewer than 200.
C29_RequestsOfAKeySpaced == \A k \in Keys : Spaced(k)

\* A key has been used for two requests by two different workers' turns.
C29_Witness ==
  \E k \in Keys : Len(posts[k]) >= 2

\* ----------------------------------------------------------------- C30
\* main has decided what to queue.
PoolPlanned == mpc # "start"

\* The batch has an id without an entry in the mapping main found.
HasMissingId(batch) == \E id \in Range(batch) : id \notin started_from

\* C30: the worker-pool fetcher is resumable from its output mapping: a
\* batch is queued exactly when one of its ids is missing from the existing
\* mapping; every entry of the existing mapping is in the written output;
\* and a rerun after a run in which every request succeeded queues nothing.
C30_ResumableFromOutput ==
  /\ PoolPlanned =>
       \A b \in Range(chunked(PoolIds, BatchSize)) :
          b \in Range(queued) <=> HasMissingId(b)
  /\ mpc = "done" => started_from \subseteq output_map
  /\ (PoolPlanned /\ pruns > 1 /\ prev_clean) => queued = <<>>

\* C34: every recorded call is charged to the tracker of the key whose token
\* was sent in that request: the index passed to record_call is the index of
\* the key in the authorization header, also on the retries made after a 429
\* has rotated current_key_index.
C34_ChargedToTheKeySent ==
  \A i \in 1 .. Len(sent) :
    sent[i].charged # None => sent[i].charged = sent[i].key

\* A recorded retry made after a 429 rotated current_key_index away from the
\* key in the header.
C34_Witness ==
  /\ Len(sent) >= 2
  /\ sent[1].response = "s429"
  /\ sent[2].charged # None
  /\ current_key_index # sent[2].key

\* C35: after any sequence of dispatches total_calls equals the number of
\* record_call invocations over all trackers, failed_calls never exceeds
\* total_calls, and current_key_index stays within 0 .. len(api_keys) - 1.
C35_CountersAgree ==
  /\ total_calls = record_calls
  /\ failed_calls <= total_calls
  /\ current_key_index \in 0 .. NumKeys - 1

\* A later dispatch is under way after calls were recorded, one of them
\* failed, one succeeded and a request raised.
C35_Witness ==
  /\ record_calls >= 2
  /\ failed_calls >= 1
  /\ failed_calls < total_calls
  /\ network_errors >= 1
  /\ calls_recorded < record_calls
  /\ dpc = "post"

\* The sleeps that followed the network errors among the requests s.
RECURSIVE BackoffTotal(_)
BackoffTotal(s) ==
  IF s = <<>> THEN 0
  ELSE (IF s[1].response = "exc" THEN s[1].sleep ELSE 0) + BackoffTotal(Tail(s))

\* The delay the backoff prescribes after a network error at attempt a.
BackoffDelays == <<1, 2, 4, 8, 0>>

\* C36: a network error at attempt a (0-based, of 5) is followed by a sleep of
\* min(2^a, 30) seconds, and by none after the last attempt; the delays of
\* one item never decrease, never exceed 30 seconds, and add up to at most
\* 1 + 2 + 4 + 8 = 15 seconds.
C36_BackoffDelays ==
  /\ Len(sent) <= Len(BackoffDelays)
  /\ \A i \in 1 .. Len(sent) :
       sent[i].response = "exc" =>
         /\ sent[i].sleep = BackoffDelays[i]
         /\ sent[i].sleep <= 30
         /\ \A j \in 1 .. i - 1 :
              (sent[j].response = "exc" /\ i < max_retries)
                => sent[j].sleep <= sent[i].sleep
  /\ BackoffTotal(sent) <= 15

\* Five requests in a row raised: four sleeps of 1, 2, 4 and 8 seconds, none
\* after the fifth, and the call has returned.
C36_Witness ==
  /\ dpc = "idle"
  /\ Len(sent) = 5
  /\ \A i \in 1 .. 5 : sent[i].response = "exc"
  /\ BackoffTotal(sent) = 15

\* A worker's request has just been answered well-formed, with no matches.
EmptyAnswered(w) == wanswer[w] # "empty" /\ wanswer'[w] = "empty"

\* C31: a well-formed successful response with no data for the requested
\* items is a terminal success: it is not counted as a failure and causes no
\* retry, in the worker pool as in the sequential dispatcher.
C31_NoDataIsTerminalSuccess ==
  [][\A w \in Workers :
       EmptyAnswered(w) => /\ wretry'[w] = wretry[w]
                           /\ failures' = failures
                           /\ wpc'[w] # "put_key_again"]_vars

\* The places of key k in key_queue and the workers that hold it.
InQueue(k) == {i \in 1 .. Len(key_q) : key_q[i] = k}
Holders(k) == {w \in Workers : wkey[w] = k}

\* The positions of Worker.run between key_queue.get and the finally clause.
InAttempt(w) ==
  wpc[w] \in {"sleep", "lock", "write", "release", "put_key_break",
              "put_key_again"}

\* C32: API keys are conserved and exclusive: once main has queued them,
\* each key is either in the key queue or held by exactly one worker, never
\* by two, and a worker holds a key only during an attempt: the key is put
\* back when the attempt has succeeded, failed or exhausted its retries.
C32_KeysConservedAndExclusive ==
  /\ mpc # "start" =>
       \A k \in Keys : Cardinality(InQueue(k)) + Cardinality(Holders(k)) = 1
  /\ \A w \in Workers : wkey[w] # None <=> InAttempt(w)

\* A worker has given its batch up after the last retry and every key is back
\* in the queue, in another order than main queued them.
C32_Witness ==
  /\ \E w \in Workers : wpc[w] = "task_done" /\ wretry[w] > MAX_RETRIES
  /\ Len(key_q) = NumKeys
  /\ key_q[1] # 0

\* The batches main has queued, by their numbers.
QueuedNos == {BatchNo(queued[i]) : i \in 1 .. Len(queued)}
WaitingNos == {BatchNo(task_q[i]) : i \in 1 .. Len(task_q)}

\* A worker between task_queue.get and task_done, and the batches of these.
Busy(w) == wpc[w] \notin {"unstarted", "get_task", "returned"}
HeldNos == {BatchNo(wbatch[w]) : w \in {v \in Workers : Busy(v)}}

\* The gets, requests and task_done of every batch, and the writes of main.
EachBatchOnce ==
  /\ \A i \in DOMAIN AllBatches :
       /\ takes[i] = (IF i \in QueuedNos \ WaitingNos THEN 1 ELSE 0)
       /\ tries[i] <= MAX_RETRIES + 1
       /\ tries[i] > 0 => takes[i] = 1
       /\ dones[i] = (IF takes[i] = 1 /\ i \notin HeldNos THEN 1 ELSE 0)
  /\ \A w, v \in Workers :
       (w # v /\ Busy(w) /\ Busy(v)) => wbatch[w] # wbatch[v]
  /\ writes = (IF mpc = "done" THEN 1 ELSE 0)
  /\ mpc = "done" => \A i \in QueuedNos : takes[i] = 1 /\ dones[i] = 1

\* An upper bound of the steps of one round of the inner loop: the key is
\* taken, the sleep passes, the request ends, the lock is taken, the entries
\* are written, the lock is released, the key is put back.
RoundSteps == PER_KEY_DELAY + 6

\* The requests a worker may still make for its batch.
RoundsLeft(w) == MAX_RETRIES + 1 - wretry[w]

\* An upper bound of the steps worker w still makes before it is back at
\* task_queue.get, by its position; a worker there still takes or returns.
WorkerRank(w) ==
  CASE wpc[w] = "get_task" -> 1
    [] wpc[w] = "get_key" -> RoundsLeft(w) * RoundSteps + 2
    [] wpc[w] = "sleep" ->
         (RoundsLeft(w) - 1) * RoundSteps + 5 + 2
           + (IF clock < wwake[w] THEN wwake[w] - clock ELSE 0)
    [] wpc[w] = "lock" -> 4 + 2
    [] wpc[w] = "write" -> 3 + 2
    [] wpc[w] = "release" -> 2 + 2
    [] wpc[w] = "put_key_break" -> 1 + 2
    [] wpc[w] = "put_key_again" -> 1 + RoundsLeft(w) * RoundSteps + 2
    [] wpc[w] = "task_done" -> 2
    [] OTHER -> 0

RECURSIVE RankOf(_)
RankOf(S) ==
  IF S = {} THEN 0
  ELSE LET w == CHOOSE v \in S : TRUE IN WorkerRank(w) + RankOf(S \ {w})

\* An upper bound of the steps the pool still makes before main has written:
\* those of the workers, those of the batches still queued, and the write.
PoolRank ==
  RankOf(Workers)
    + Len(task_q) * ((MAX_RETRIES + 1) * RoundSteps + 3)
    + (IF mpc = "join" THEN 1 ELSE 0)

\* Time passes although no worker waits for it.
IdleTick == PoolTick /\ ~PoolTickDue

\* C33: every queued batch is taken by exactly one worker, is attempted at
\* most MAX_RETRIES + 1 times and has task_done called for it exactly once,
\* whether it succeeded or failed; hence, when every request returns or
\* times out, task_q.join() returns and the output file is written exactly
\* once: while main waits in join a thread or a running sleep can go on, and
\* every such step brings the bounded count of remaining steps down.
C33_EveryBatchDoneOnce ==
  /\ []EachBatchOnce
  /\ [](mpc = "join" => ENABLED PoolStep)
  /\ [](PoolRank >= 0)
  /\ [][(mpc = "join" /\ ~IdleTick) => PoolRank' < PoolRank]_vars

\* The output is written after one batch was given up at its last retry and
\* another one succeeded at its first request.
C33_Witness ==
  /\ mpc = "done"
  /\ writes = 1
  /\ \E i \in QueuedNos : tries[i] = MAX_RETRIES + 1 /\ dones[i] = 1
  /\ \E i \in QueuedNos : tries[i] = 1 /\ dones[i] = 1
  /\ failures = MAX_RETRIES + 1

\* The three league fields of an entry all have a value, None or not.
HasLeagueFields(entry) ==
  /\ entry.leagueId # "absent"
  /\ entry.leagueName # "absent"
  /\ entry.leagueTier # "absent"

\* C37: merging the response of one batch changes only the entries of the
\* ids of that batch: no key is added to the store (ids the service returns
\* that are not in the batch are ignored), entries of other batches are not
\* touched, and every id of the batch gets the fields leagueId, leagueName
\* and leagueTier, None when the id is absent from the response.
C37_MergeTouchesOnlyTheBatch ==
  hpc = "merged" =>
    /\ DOMAIN bmerged = DOMAIN bmatches
    /\ \A id \in DOMAIN bmatches :
         IF id \in Range(batch_ids)
           THEN /\ HasLeagueFields(bmerged[id])
                /\ bmerged[id] = (IF id \in DOMAIN bleague_data
                                    THEN bleague_data[id] ELSE NullLeague)
           ELSE bmerged[id] = bmatches[id]

\* The response names an id of another batch and an id the store does not
\* have, and lacks an id of the batch whose entry had league fields.
C37_Witness ==
  /\ hpc = "merged"
  /\ ForeignId \in DOMAIN bleague_data
  /\ \E id \in DOMAIN bleague_data :
       id \in BatchIds \ Range(batch_ids) /\ bleague_data[id] # bmatches[id]
  /\ \E id \in Range(batch_ids) :
       id \notin DOMAIN bleague_data /\ bmatches[id] \notin {EmptyDict, NullLeague}
  /\ \E id \in Range(batch_ids) : id \in DOMAIN bleague_data

\* The items of the chunks cs, one chunk after the other.
RECURSIVE Concat(_)
Concat(cs) == IF cs = <<>> THEN <<>> ELSE Head(cs) \o Concat(Tail(cs))

\* C38: for every input sequence and every size >= 1, the concatenation of
\* the chunks chunked yields is the input in order, every chunk is non-empty,
\* and every chunk but possibly the last has exactly size items, so every id
\* falls in exactly one batch.
C38_ChunksPartitionTheInput ==
  hpc = "chunked" =>
    /\ Concat(chunks) = iterable
    /\ \A c \in 1 .. Len(chunks) :
         /\ chunks[c] # <<>>
         /\ Len(chunks[c]) <= size
         /\ c < Len(chunks) => Len(chunks[c]) = size

\* Several full chunks and a shorter last one, of a sequence with equal items.
C38_Witness ==
  /\ hpc = "chunked"
  /\ Len(chunks) >= 3
  /\ size >= 2
  /\ Len(chunks[Len(chunks)]) < size
  /\ \E i, j \in 1 .. Len(iterable) : i # j /\ iterable[i] = iterable[j]

====
